---- MODULE Spec2Model ----
(***************************************************************************)
(* Connection establishment of the Databricks SQL connector:               *)
(* connector.Connect (src/connector.go) as a state machine.  One Connect   *)
(* invocation is followed from client initialization through the bounded   *)
(* open-session call (sentinel.Watch) to the replay of the session         *)
(* parameters as SET statements.                                           *)
(*                                                                         *)
(* Text is modelled as a sequence of characters (a Go string is a byte     *)
(* sequence); the empty Go string is the empty sequence.  A Go pointer or  *)
(* interface value is a sequence of length 0 (nil) or 1 (the pointee).     *)
(***************************************************************************)
EXTENDS Naturals, Sequences, FiniteSets, TLC

VARIABLES
    cfg,          \* c.cfg, the connector's *config.Config
    ctxDeadline,  \* deadline of the caller's ctx (0: the ctx has none)
    callHangs,    \* environment: the remote open-session call never completes
    callerCancels,\* environment: the caller may cancel ctx
    pc,           \* position of the Connect invocation
    tclient,      \* local tclient (line 23)
    req,          \* the TOpenSessionReq handed to tclient.OpenSession (lines 39-47)
    callState,    \* "notStarted", "inFlight", "completed": the remote call
    callResult,   \* what the remote call produced once it completed
    events,       \* completion / cancellation / timeout, in the order they happened
    now,          \* time elapsed since sentinel.Watch was entered
    watchRes,     \* res of line 51
    watchErr,     \* err of line 51
    conn,         \* local conn (line 60)
    remaining,    \* keys of c.cfg.SessionParams the range loop has not visited
    issued,       \* statements handed to conn.ExecContext, in order
    inFlight,     \* the statement ExecContext is executing
    stmtErr,      \* the error ExecContext reported
    ret,          \* what Connect returned to its caller (meaningful once pc = "returned")
    calls,        \* the calls this Connect invocation made to its collaborators, in order
    server,       \* the server: the session this invocation opened, the statements applied
    options,      \* the options handed to NewConnector
    optIdx,       \* number of options NewConnector has applied
    built         \* what NewConnector returned

vars == <<cfg, ctxDeadline, callHangs, callerCancels, pc, tclient, req, callState,
          callResult, events, now, watchRes, watchErr, conn, remaining, issued,
          inFlight, stmtErr, ret, calls, server, options, optIdx, built>>

(***************************************************************************)
(* Bounds of the model.                                                    *)
(***************************************************************************)
MaxParams == 2
MaxTimeout == 2
MaxPoll == 1
MaxOptions == 2

(***************************************************************************)
(* Values.                                                                 *)
(***************************************************************************)
Nil == <<>>
Ptr(x) == <<x>>
Deref(p) == p[1]

Min(a, b) == IF a <= b THEN a ELSE b

\* The quoting character of the SET statement (a backquote).
BACKQUOTE == "BACKQUOTE"

KeyNames == << <<"a">>, <<"b">>, <<"c">>, <<"d">> >>
ValueOf == << <<"1">>, <<"2">>, <<"3">>, <<"4">> >>
KeyIndex(k) == CHOOSE i \in 1..Len(KeyNames) : KeyNames[i] = k
AllKeys == {KeyNames[i] : i \in 1..Min(MaxParams, Len(KeyNames))}
\* The session-parameter mappings: every subset of the keys, key i set to value i.
ParamMaps == {[k \in K |-> ValueOf[KeyIndex(k)]] : K \in SUBSET AllKeys}

Catalogs == {<<>>, <<"c", "1">>}
Schemas == {<<>>, <<"s", "1">>}

Configs ==
    [Host : {"example.cloud.databricks.com"},
     Port : {443},
     HTTPPath : {"/sql/1.0/endpoints/x"},
     AccessToken : {"token"},
     MaxRows : {10000},
     QueryTimeoutSeconds : {0},
     UserAgentEntry : {""},
     Catalog : Catalogs,
     Schema : Schemas,
     PollInterval : 1..MaxPoll,
     DefaultTimeout : 1..MaxTimeout,
     SessionParams : ParamMaps,
     ThriftProtocolVersion : {"V6"},
     CanUseMultipleCatalogs : BOOLEAN]

\* Binary session identities (16 bytes each).
Guids == { <<0, 1, 2, 3, 4, 5, 6, 7, 8, 9, 10, 11, 12, 13, 14, 255>>,
           <<255, 1, 2, 3, 4, 5, 6, 7, 8, 9, 10, 11, 12, 13, 14, 0>> }

\* What the remote open-session call can produce:
\*   "ok"       a *TOpenSessionResp carrying a session handle with GUID guid
\*   "nohandle" a *TOpenSessionResp whose SessionHandle is absent
\*   "other"    a value that is not a *TOpenSessionResp
\*   "err"      the call's own error
CallResults ==
    {[kind |-> "ok", guid |-> g] : g \in Guids}
    \cup {[kind |-> k, guid |-> <<>>] : k \in {"nohandle", "other", "err"}}

(***************************************************************************)
(* Errors.  An error is a record: msg, the format arguments args, and the  *)
(* error it wraps (cause: Nil or a pointer to the wrapped error).          *)
(***************************************************************************)
BaseErr(m) == [msg |-> m, args |-> <<>>, cause |-> Nil]
InitErr == BaseErr("thrift client init failed")
TimeoutErr == BaseErr("sentinel timed out")
CancelledErr == BaseErr("context canceled")
RemoteErr == BaseErr("open session failed")
ExecErr(stmt) == [msg |-> "statement failed", args |-> stmt, cause |-> Nil]

RECURSIVE RootCause(_)
RootCause(e) == IF e.cause = Nil THEN e ELSE RootCause(Deref(e.cause))
\* The innermost error of an error pointer (Nil for a nil error).
CauseOf(p) == IF p = Nil THEN Nil ELSE Ptr(RootCause(Deref(p)))

\* errors.New of github.com/pkg/errors
ErrorsNew(m) == BaseErr(m)
\* wrapErr(err, msg)
WrapErr(e, m) == [msg |-> m, args |-> <<>>, cause |-> Ptr(e)]
\* wrapErrf(err, format, args...)
WrapErrf(e, m, a) == [msg |-> m, args |-> a, cause |-> Ptr(e)]

(***************************************************************************)
(* Pure parts of Connect.                                                  *)
(***************************************************************************)
\* Mutant: the identifier is set whatever the string.
TIdentifierPtr_Always(s) == Ptr(s)
\* Lines 27-34: an empty string leaves the identifier pointer nil.
TIdentifierPtr(s) == IF s # <<>> THEN Ptr(s) ELSE Nil

\* Mutant: the session parameters are sent as the request's configuration.
OpenSessionReq_WithParams ==
    [ClientProtocol |-> cfg.ThriftProtocolVersion,
     Configuration |-> cfg.SessionParams,
     InitialNamespace |-> [CatalogName |-> TIdentifierPtr(cfg.Catalog),
                           SchemaName |-> TIdentifierPtr(cfg.Schema)],
     CanUseMultipleCatalogs |-> cfg.CanUseMultipleCatalogs]
\* Lines 39-47: the request of the open-session call.
OpenSessionReq ==
    [ClientProtocol |-> cfg.ThriftProtocolVersion,
     Configuration |-> <<>>,
     InitialNamespace |-> [CatalogName |-> TIdentifierPtr(cfg.Catalog),
                           SchemaName |-> TIdentifierPtr(cfg.Schema)],
     CanUseMultipleCatalogs |-> cfg.CanUseMultipleCatalogs]

\* Mutant: the key and the value are not quoted.
SetStmt_Unquoted(k, v) == <<"S", "E", "T", " ">> \o k \o <<" ", "=", " ">> \o v \o <<";">>
\* Line 71: fmt.Sprintf of the SET statement.
SetStmt(k, v) ==
    <<"S", "E", "T", " ", BACKQUOTE>> \o k \o <<BACKQUOTE, " ", "=", " ", BACKQUOTE>>
        \o v \o <<BACKQUOTE, ";">>

\* Line 25
ClientInitError(e) == WrapErr(e, "error initializing thrift client")
\* Mutant: a new error is built from the message, the cause is dropped.
ConnectError_DropCause(e) ==
    [msg |-> "error connecting: host=%s port=%d, httpPath=%s",
     args |-> <<cfg.Host, cfg.Port, cfg.HTTPPath>>, cause |-> Nil]
\* Mutant: the executor's error is replaced by a generic one before wrapping.
ConnectError_Generic(e) ==
    WrapErrf(BaseErr("open session failed or timed out"),
             "error connecting: host=%s port=%d, httpPath=%s",
             <<cfg.Host, cfg.Port, cfg.HTTPPath>>)
\* Line 53
ConnectError(e) ==
    WrapErrf(e, "error connecting: host=%s port=%d, httpPath=%s",
             <<cfg.Host, cfg.Port, cfg.HTTPPath>>)
\* Line 57
InvalidResponseError == ErrorsNew("databricks: invalid open session response")
\* Mutant: the statement's error is wrapped like the session-open error.
ParamError_Wrapped(e) ==
    WrapErrf(e, "error connecting: host=%s port=%d, httpPath=%s",
             <<cfg.Host, cfg.Port, cfg.HTTPPath>>)
\* Line 74
ParamError(e) == e

\* client.SprintGuid: grouped hexadecimal, 4-2-2-2-6 bytes.
HexDigits == <<"0", "1", "2", "3", "4", "5", "6", "7",
               "8", "9", "a", "b", "c", "d", "e", "f">>
HexByte(b) == <<HexDigits[(b \div 16) + 1], HexDigits[(b % 16) + 1]>>
RECURSIVE HexBytes(_)
HexBytes(bs) == IF bs = <<>> THEN <<>> ELSE HexByte(Head(bs)) \o HexBytes(Tail(bs))
SprintGuid(g) ==
    IF Len(g) = 16
    THEN HexBytes(SubSeq(g, 1, 4)) \o <<"-">> \o HexBytes(SubSeq(g, 5, 6)) \o <<"-">>
         \o HexBytes(SubSeq(g, 7, 8)) \o <<"-">> \o HexBytes(SubSeq(g, 9, 10)) \o <<"-">>
         \o HexBytes(SubSeq(g, 11, 16))
    ELSE HexBytes(g)

(***************************************************************************)
(* The bounded executor's deadline.                                        *)
(***************************************************************************)
EffectiveDeadline ==
    IF ctxDeadline = 0 THEN cfg.DefaultTimeout
    ELSE Min(ctxDeadline, cfg.DefaultTimeout)

(***************************************************************************)
(* The server before the open-session call: no session of this invocation, *)
(* no statement applied.                                                   *)
(***************************************************************************)
NoSession == [session |-> "none", params |-> {}]

(***************************************************************************)
(* Initial state: a connector built by NewConnector, Connect just entered. *)
(***************************************************************************)
Init ==
    /\ cfg \in Configs
    /\ ctxDeadline \in 0..MaxTimeout
    /\ callHangs \in BOOLEAN
    /\ callerCancels \in BOOLEAN
    /\ pc = "Idle"
    /\ tclient = Nil
    /\ req = Nil
    /\ callState = "notStarted"
    /\ callResult = Nil
    /\ events = <<>>
    /\ now = 0
    /\ watchRes = Nil
    /\ watchErr = Nil
    /\ conn = Nil
    /\ remaining = {}
    /\ issued = <<>>
    /\ inFlight = Nil
    /\ stmtErr = Nil
    /\ ret = [conn |-> Nil, err |-> Nil]
    /\ calls = <<>>
    /\ server = NoSession
    /\ options = <<>>
    /\ optIdx = 0
    /\ built = Nil

\* return c, e
Return(c, e) ==
    /\ pc' = "returned"
    /\ ret' = [conn |-> c, err |-> e]

(***************************************************************************)
(* Lines 23-26: client.InitThriftClient.                                   *)
(***************************************************************************)
InitThriftClient ==
    /\ pc = "Idle"
    /\ \E ok \in BOOLEAN :
         IF ok
         THEN /\ tclient' = Ptr("tclient")
              /\ pc' = "ClientInitialized"
              /\ ret' = ret
         ELSE /\ tclient' = Nil
              /\ Return(Nil, Ptr(ClientInitError(InitErr)))
    /\ calls' = Append(calls, "InitThriftClient")
    /\ UNCHANGED <<cfg, options, optIdx, built, server,
                   ctxDeadline, callHangs, callerCancels, req, callState,
                   callResult, events, now, watchRes, watchErr, conn, remaining,
                   issued, inFlight, stmtErr>>

(***************************************************************************)
(* Lines 27-51: the namespace is resolved, sentinel.Watch is entered and   *)
(* invokes OnDoneFn, which issues the open-session call.                   *)
(***************************************************************************)
Watch ==
    /\ pc = "ClientInitialized"
    /\ req' = Ptr(OpenSessionReq)
    /\ callState' = "inFlight"
    /\ now' = 0
    /\ pc' = "SessionOpening"
    /\ calls' = Append(calls, "OpenSession")
    /\ UNCHANGED <<cfg, options, optIdx, built, server,
                   ctxDeadline, callHangs, callerCancels, tclient, callResult,
                   events, watchRes, watchErr, conn, remaining, issued, inFlight,
                   stmtErr, ret>>

(***************************************************************************)
(* Environment: the remote call completes (possibly after Connect gave     *)
(* up), the caller cancels, time passes, the deadline is reached.          *)
(***************************************************************************)
OpenSessionCompletes ==
    /\ callState = "inFlight"
    /\ ~callHangs
    /\ \E r \in CallResults :
         /\ callResult' = Ptr(r)
         /\ server' = IF r.kind = "ok" THEN [server EXCEPT !.session = "open"] ELSE server
    /\ callState' = "completed"
    /\ events' = IF pc = "SessionOpening" THEN Append(events, "complete") ELSE events
    /\ UNCHANGED <<cfg, options, optIdx, built, calls,
                   ctxDeadline, callHangs, callerCancels, pc, tclient, req, now,
                   watchRes, watchErr, conn, remaining, issued, inFlight, stmtErr, ret>>

Cancel ==
    /\ callerCancels
    /\ pc \in {"Idle", "ClientInitialized", "SessionOpening"}
    /\ \A i \in 1..Len(events) : events[i] # "cancel"
    /\ events' = Append(events, "cancel")
    /\ UNCHANGED <<cfg, options, optIdx, built, calls, server,
                   ctxDeadline, callHangs, callerCancels, pc, tclient, req,
                   callState, callResult, now, watchRes, watchErr, conn, remaining,
                   issued, inFlight, stmtErr, ret>>

TimedOut == \E i \in 1..Len(events) : events[i] = "timeout"

Tick ==
    /\ pc = "SessionOpening"
    /\ \/ now < EffectiveDeadline
       \/ TimedOut /\ now < EffectiveDeadline + cfg.PollInterval
    /\ now' = now + 1
    /\ UNCHANGED <<cfg, options, optIdx, built, calls, server,
                   ctxDeadline, callHangs, callerCancels, pc, tclient, req,
                   callState, callResult, events, watchRes, watchErr, conn, remaining,
                   issued, inFlight, stmtErr, ret>>

TimeoutElapses ==
    /\ pc = "SessionOpening"
    /\ now >= EffectiveDeadline
    /\ ~TimedOut
    /\ events' = Append(events, "timeout")
    /\ UNCHANGED <<cfg, options, optIdx, built, calls, server,
                   ctxDeadline, callHangs, callerCancels, pc, tclient, req,
                   callState, callResult, now, watchRes, watchErr, conn, remaining,
                   issued, inFlight, stmtErr, ret>>

\* Mutant: the call's result is returned whenever the call has completed by the
\* time Watch returns, also after the timeout or the cancellation.
WatchOutcome_CompletionWins ==
    IF callState = "completed" /\ Deref(callResult).kind # "err"
    THEN [res |-> callResult, err |-> Nil]
    ELSE IF Head(events) = "cancel" THEN [res |-> Nil, err |-> Ptr(CancelledErr)]
    ELSE IF Head(events) = "timeout" THEN [res |-> Nil, err |-> Ptr(TimeoutErr)]
    ELSE [res |-> Nil, err |-> Ptr(RemoteErr)]

\* Mutant: an elapsed timeout is preferred to whatever happened before it.
WatchOutcome_TimeoutPreferred ==
    IF TimedOut THEN [res |-> Nil, err |-> Ptr(TimeoutErr)]
    ELSE IF Head(events) = "cancel" THEN [res |-> Nil, err |-> Ptr(CancelledErr)]
    ELSE IF Deref(callResult).kind = "err" THEN [res |-> Nil, err |-> Ptr(RemoteErr)]
    ELSE [res |-> callResult, err |-> Nil]

(***************************************************************************)
(* sentinel.Watch returns: the first of completion, cancellation and       *)
(* timeout decides what it returns.                                        *)
(***************************************************************************)
WatchOutcome ==
    CASE Head(events) = "timeout" -> [res |-> Nil, err |-> Ptr(TimeoutErr)]
      [] Head(events) = "cancel" -> [res |-> Nil, err |-> Ptr(CancelledErr)]
      [] Head(events) = "complete" ->
            IF Deref(callResult).kind = "err"
            THEN [res |-> Nil, err |-> Ptr(RemoteErr)]
            ELSE [res |-> callResult, err |-> Nil]

WatchReturns ==
    /\ pc = "SessionOpening"
    /\ events # <<>>
    /\ watchRes' = WatchOutcome.res
    /\ watchErr' = WatchOutcome.err
    /\ pc' = "Watched"
    /\ UNCHANGED <<cfg, options, optIdx, built, calls, server,
                   ctxDeadline, callHangs, callerCancels, tclient, req, callState,
                   callResult, events, now, conn, remaining, issued, inFlight,
                   stmtErr, ret>>

\* Mutant: the return of line 53 is missing; the nil res then fails the type
\* assertion of line 55.
SessionOpenFailed_NoReturn ==
    /\ pc = "Watched"
    /\ watchErr # Nil
    /\ Return(Nil, Ptr(InvalidResponseError))
    /\ UNCHANGED <<cfg, options, optIdx, built, calls, server,
                   ctxDeadline, callHangs, callerCancels, tclient, req, callState,
                   callResult, events, now, watchRes, watchErr, conn, remaining,
                   issued, inFlight, stmtErr>>

\* Mutant: a failed session open is tried again.
SessionOpenFailed_Retry ==
    /\ pc = "Watched"
    /\ watchErr # Nil
    /\ pc' = "ClientInitialized"
    /\ UNCHANGED <<cfg, options, optIdx, built, calls, server,
                   ctxDeadline, callHangs, callerCancels, tclient, req, callState,
                   callResult, events, now, watchRes, watchErr, conn, remaining,
                   issued, inFlight, stmtErr, ret>>

(***************************************************************************)
(* Lines 52-54: the executor failed.                                       *)
(***************************************************************************)
SessionOpenFailed ==
    /\ pc = "Watched"
    /\ watchErr # Nil
    /\ Return(Nil, Ptr(ConnectError(Deref(watchErr))))
    /\ UNCHANGED <<cfg, options, optIdx, built, calls, server,
                   ctxDeadline, callHangs, callerCancels, tclient, req, callState,
                   callResult, events, now, watchRes, watchErr, conn, remaining,
                   issued, inFlight, stmtErr>>

(***************************************************************************)
(* Lines 55-58: the type assertion of res to the open-session response    *)
(* type fails.                                                             *)
(***************************************************************************)
TypeAssertOk(res) == res # Nil /\ Deref(res).kind # "other"

InvalidResponse ==
    /\ pc = "Watched"
    /\ watchErr = Nil
    /\ ~TypeAssertOk(watchRes)
    /\ Return(Nil, Ptr(InvalidResponseError))
    /\ UNCHANGED <<cfg, options, optIdx, built, calls, server,
                   ctxDeadline, callHangs, callerCancels, tclient, req, callState,
                   callResult, events, now, watchRes, watchErr, conn, remaining,
                   issued, inFlight, stmtErr>>

(***************************************************************************)
(* Lines 60-65: the conn is built.  session.SessionHandle.GetSessionId()   *)
(* .GUID dereferences the session handle: with an absent handle the        *)
(* goroutine panics at line 61.                                            *)
(***************************************************************************)
\* Mutant: the id is the GUID itself, not its rendering.
NewConn_RawGuid(session) ==
    [id |-> session.guid, cfg |-> cfg, client |-> tclient, session |-> session]

NewConn(session) ==
    [id |-> SprintGuid(session.guid), cfg |-> cfg, client |-> tclient,
     session |-> session]

ConstructConn ==
    /\ pc = "Watched"
    /\ watchErr = Nil
    /\ TypeAssertOk(watchRes)
    /\ IF Deref(watchRes).kind = "ok"
       THEN /\ conn' = Ptr(NewConn(Deref(watchRes)))
            /\ remaining' = DOMAIN cfg.SessionParams
            /\ pc' = "ParameterApplying"
       ELSE /\ pc' = "panicked"
            /\ UNCHANGED <<conn, remaining>>
    /\ UNCHANGED <<cfg, options, optIdx, built, calls, server,
                   ctxDeadline, callHangs, callerCancels, tclient, req, callState,
                   callResult, events, now, watchRes, watchErr, issued, inFlight,
                   stmtErr, ret>>

\* Mutant: the loop hands over the next statement without waiting for the
\* previous one to return.
RangeSessionParams_Pipelined ==
    /\ pc = "ParameterApplying"
    /\ \E k \in remaining :
         /\ remaining' = remaining \ {k}
         /\ inFlight' = inFlight \o <<SetStmt(k, cfg.SessionParams[k])>>
         /\ issued' = Append(issued, SetStmt(k, cfg.SessionParams[k]))
    /\ calls' = Append(calls, "ExecContext")
    /\ UNCHANGED <<cfg, options, optIdx, built, server,
                   ctxDeadline, callHangs, callerCancels, tclient, req, callState,
                   callResult, events, now, watchRes, watchErr, conn, stmtErr, ret, pc>>

(***************************************************************************)
(* Lines 70-72: the range loop takes the next entry of the map, in the     *)
(* order the Go runtime chooses, and hands its statement to ExecContext.   *)
(***************************************************************************)
RangeSessionParams ==
    /\ pc = "ParameterApplying"
    /\ \E k \in remaining :
         /\ remaining' = remaining \ {k}
         /\ inFlight' = Ptr(SetStmt(k, cfg.SessionParams[k]))
         /\ issued' = Append(issued, SetStmt(k, cfg.SessionParams[k]))
    /\ pc' = "Executing"
    /\ calls' = Append(calls, "ExecContext")
    /\ UNCHANGED <<cfg, options, optIdx, built, server,
                   ctxDeadline, callHangs, callerCancels, tclient, req, callState,
                   callResult, events, now, watchRes, watchErr, conn, stmtErr, ret>>

\* Mutant: the loop goes on after a failed statement.
ExecContextReturns_Continue ==
    /\ pc = "Executing"
    /\ \E ok \in BOOLEAN :
         IF ok
         THEN /\ server' = [server EXCEPT !.params = @ \cup {Deref(inFlight)}]
              /\ UNCHANGED stmtErr
         ELSE /\ stmtErr' = Ptr(ExecErr(Deref(inFlight)))
              /\ server' = server
    /\ pc' = "ParameterApplying"
    /\ inFlight' = Nil
    /\ UNCHANGED <<cfg, options, optIdx, built, calls,
                   ctxDeadline, callHangs, callerCancels, tclient, req, callState,
                   callResult, events, now, watchRes, watchErr, conn, remaining,
                   issued, ret>>

\* Mutant: a failed statement makes Connect close the session it opened.
ExecContextReturns_CloseOnError ==
    /\ pc = "Executing"
    /\ \E ok \in BOOLEAN :
         IF ok
         THEN /\ pc' = "ParameterApplying"
              /\ server' = [server EXCEPT !.params = @ \cup {Deref(inFlight)}]
              /\ UNCHANGED <<stmtErr, ret, calls>>
         ELSE /\ stmtErr' = Ptr(ExecErr(Deref(inFlight)))
              /\ calls' = Append(calls, "CloseSession")
              /\ server' = [session |-> "closed", params |-> {}]
              /\ Return(Nil, Ptr(ParamError(ExecErr(Deref(inFlight)))))
    /\ inFlight' = Nil
    /\ UNCHANGED <<cfg, options, optIdx, built,
                   ctxDeadline, callHangs, callerCancels, tclient, req, callState,
                   callResult, events, now, watchRes, watchErr, conn, remaining,
                   issued>>

(***************************************************************************)
(* Lines 72-77: conn.ExecContext returns.                                  *)
(***************************************************************************)
ExecContextReturns ==
    /\ pc = "Executing"
    /\ \E ok \in BOOLEAN :
         IF ok
         THEN /\ pc' = "ParameterApplying"
              /\ server' = [server EXCEPT !.params = @ \cup {Deref(inFlight)}]
              /\ UNCHANGED <<stmtErr, ret>>
         ELSE /\ stmtErr' = Ptr(ExecErr(Deref(inFlight)))
              /\ server' = server
              /\ Return(Nil, Ptr(ParamError(ExecErr(Deref(inFlight)))))
    /\ inFlight' = Nil
    /\ UNCHANGED <<cfg, options, optIdx, built, calls,
                   ctxDeadline, callHangs, callerCancels, tclient, req, callState,
                   callResult, events, now, watchRes, watchErr, conn, remaining,
                   issued>>

\* Mutant: the conn is returned before the loop has visited every parameter.
ReturnConn_Early ==
    /\ pc = "ParameterApplying"
    /\ Return(conn, Nil)
    /\ UNCHANGED <<cfg, options, optIdx, built, calls, server,
                   ctxDeadline, callHangs, callerCancels, tclient, req, callState,
                   callResult, events, now, watchRes, watchErr, conn, remaining,
                   issued, inFlight, stmtErr>>

\* Mutant: the applied session parameters are removed from the Config.
ReturnConn_ClearParams ==
    /\ pc = "ParameterApplying"
    /\ remaining = {}
    /\ Return(conn, Nil)
    /\ cfg' = [cfg EXCEPT !.SessionParams = <<>>]
    /\ UNCHANGED <<options, optIdx, built, calls, server,
                   ctxDeadline, callHangs, callerCancels, tclient, req, callState,
                   callResult, events, now, watchRes, watchErr, conn, remaining,
                   issued, inFlight, stmtErr>>

(***************************************************************************)
(* Line 78: every parameter has been applied.                              *)
(***************************************************************************)
ReturnConn ==
    /\ pc = "ParameterApplying"
    /\ remaining = {}
    /\ Return(conn, Nil)
    /\ UNCHANGED <<cfg, options, optIdx, built, calls, server,
                   ctxDeadline, callHangs, callerCancels, tclient, req, callState,
                   callResult, events, now, watchRes, watchErr, conn, remaining,
                   issued, inFlight, stmtErr>>

(***************************************************************************)
(* The caller invokes Connect again on the same connector (the connector   *)
(* keeps c.cfg; everything else is local to the invocation), with a new    *)
(* ctx and against a server that may behave differently.                   *)
(***************************************************************************)
Reconnect ==
    /\ pc = "returned"
    /\ ctxDeadline' \in 0..MaxTimeout
    /\ callHangs' \in BOOLEAN
    /\ callerCancels' \in BOOLEAN
    /\ pc' = "Idle"
    /\ tclient' = Nil
    /\ req' = Nil
    /\ callState' = "notStarted"
    /\ callResult' = Nil
    /\ events' = <<>>
    /\ now' = 0
    /\ watchRes' = Nil
    /\ watchErr' = Nil
    /\ conn' = Nil
    /\ remaining' = {}
    /\ issued' = <<>>
    /\ inFlight' = Nil
    /\ stmtErr' = Nil
    /\ ret' = [conn |-> Nil, err |-> Nil]
    /\ calls' = <<>>
    /\ server' = NoSession
    /\ UNCHANGED <<cfg, options, optIdx, built>>

Next ==
    \/ InitThriftClient
    \/ Watch
    \/ OpenSessionCompletes
    \/ Cancel
    \/ Tick
    \/ TimeoutElapses
    \/ WatchReturns
    \/ SessionOpenFailed
    \/ InvalidResponse
    \/ ConstructConn
    \/ RangeSessionParams
    \/ ExecContextReturns
    \/ ReturnConn
    \/ Reconnect

Spec == Init /\ [][Next]_vars

\* The liveness specification follows one namespace configuration.
LiveInit ==
    /\ Init
    /\ cfg.Catalog = <<>>
    /\ cfg.Schema = <<>>
    /\ cfg.CanUseMultipleCatalogs

\* The Go runtime schedules the goroutine running Connect, fires armed timers,
\* and ExecContext returns.
LiveSpec ==
    /\ LiveInit
    /\ [][Next]_vars
    /\ WF_vars(InitThriftClient)
    /\ WF_vars(Watch)
    /\ WF_vars(Tick)
    /\ WF_vars(TimeoutElapses)
    /\ WF_vars(WatchReturns)
    /\ WF_vars(SessionOpenFailed)
    /\ WF_vars(InvalidResponse)
    /\ WF_vars(ConstructConn)
    /\ WF_vars(RangeSessionParams)
    /\ WF_vars(ExecContextReturns)
    /\ WF_vars(ReturnConn)

(***************************************************************************)
(* NewConnector (lines 89-99) and the options (lines 101-161).  An option  *)
(* is a record: the name of the function that made it and its arguments,   *)
(* by type: str (a string), num (an int), catalog and schema (the strings  *)
(* of the namespace), params (a map); applying it is the closure's body.   *)
(***************************************************************************)
\* config.WithDefaults()
DefaultConfig ==
    [Host |-> "localhost",
     Port |-> 443,
     HTTPPath |-> "/sql/1.0/endpoints/default",
     AccessToken |-> "",
     MaxRows |-> 10000,
     QueryTimeoutSeconds |-> 0,
     UserAgentEntry |-> "",
     Catalog |-> <<>>,
     Schema |-> <<>>,
     PollInterval |-> 1,
     DefaultTimeout |-> 1,
     SessionParams |-> <<>>,
     ThriftProtocolVersion |-> "V6",
     CanUseMultipleCatalogs |-> TRUE]

NoArgs == [name |-> "", str |-> "", num |-> 0, catalog |-> <<>>, schema |-> <<>>,
           params |-> <<>>]
StrOption(n, x) == [NoArgs EXCEPT !.name = n, !.str = x]
NumOption(n, x) == [NoArgs EXCEPT !.name = n, !.num = x]
NamespaceOption(c, sc) ==
    [NoArgs EXCEPT !.name = "WithInitialNamespace", !.catalog = c, !.schema = sc]
ParamsOption(m) == [NoArgs EXCEPT !.name = "WithSessionParams", !.params = m]
Options ==
    {StrOption("WithServerHostname", h) : h \in {"h1", "h2"}}
    \cup {NumOption("WithPort", n) : n \in {444, 8443}}
    \cup {StrOption("WithAccessToken", t) : t \in {"t1", "t2"}}
    \cup {StrOption("WithHTTPPath", h) : h \in {"/p1", "/p2"}}
    \cup {NumOption("WithMaxRows", n) : n \in {0, 5, 7}}
    \cup {NumOption("WithTimeout", n) : n \in {0, 30}}
    \cup {NamespaceOption(c, sc) : c \in Catalogs, sc \in Schemas}
    \cup {StrOption("WithUserAgentEntry", e) : e \in {"ua1", "ua2"}}
    \cup {ParamsOption(m) : m \in ParamMaps}

\* The option lists of length at most MaxOptions.
OptionLists == UNION {[1..n -> Options] : n \in 0..MaxOptions}

\* Lines 101-105
WithServerHostname(host, c) == [c EXCEPT !.Host = host]
\* Lines 107-111
WithPort(port, c) == [c EXCEPT !.Port = port]
\* Lines 113-117
WithAccessToken(token, c) == [c EXCEPT !.AccessToken = token]
\* Lines 119-123
WithHTTPPath(path, c) == [c EXCEPT !.HTTPPath = path]
\* Mutant: zero is stored like any other value.
WithMaxRows_Always(n, c) == [c EXCEPT !.MaxRows = n]
\* Lines 125-131
WithMaxRows(n, c) == IF n # 0 THEN [c EXCEPT !.MaxRows = n] ELSE c
\* Lines 135-139
WithTimeout(n, c) == [c EXCEPT !.QueryTimeoutSeconds = n]
\* Lines 141-146
WithInitialNamespace(catalog, schema, c) ==
    [c EXCEPT !.Catalog = catalog, !.Schema = schema]
\* Lines 148-153
WithUserAgentEntry(entry, c) == [c EXCEPT !.UserAgentEntry = entry]
\* Lines 157-161
WithSessionParams(params, c) == [c EXCEPT !.SessionParams = params]

\* Line 94: opt(cfg)
ApplyOpt(o, c) ==
    CASE o.name = "WithServerHostname" -> WithServerHostname(o.str, c)
      [] o.name = "WithPort" -> WithPort(o.num, c)
      [] o.name = "WithAccessToken" -> WithAccessToken(o.str, c)
      [] o.name = "WithHTTPPath" -> WithHTTPPath(o.str, c)
      [] o.name = "WithMaxRows" -> WithMaxRows(o.num, c)
      [] o.name = "WithTimeout" -> WithTimeout(o.num, c)
      [] o.name = "WithInitialNamespace" -> WithInitialNamespace(o.catalog, o.schema, c)
      [] o.name = "WithUserAgentEntry" -> WithUserAgentEntry(o.str, c)
      [] o.name = "WithSessionParams" -> WithSessionParams(o.params, c)

\* Lines 89-91: NewConnector is entered with its options, cfg holds the defaults.
BuildInit ==
    /\ options \in OptionLists
    /\ optIdx = 0
    /\ built = Nil
    /\ cfg = DefaultConfig
    /\ pc = "NewConnector"
    /\ ctxDeadline = 0
    /\ callHangs = FALSE
    /\ callerCancels = FALSE
    /\ tclient = Nil
    /\ req = Nil
    /\ callState = "notStarted"
    /\ callResult = Nil
    /\ events = <<>>
    /\ now = 0
    /\ watchRes = Nil
    /\ watchErr = Nil
    /\ conn = Nil
    /\ remaining = {}
    /\ issued = <<>>
    /\ inFlight = Nil
    /\ stmtErr = Nil
    /\ ret = [conn |-> Nil, err |-> Nil]
    /\ calls = <<>>
    /\ server = NoSession

\* Lines 93-95: the loop applies the next option.
ApplyOption ==
    /\ pc = "NewConnector"
    /\ optIdx < Len(options)
    /\ cfg' = ApplyOpt(options[optIdx + 1], cfg)
    /\ optIdx' = optIdx + 1
    /\ UNCHANGED <<options, built, calls, server, ctxDeadline, callHangs,
                   callerCancels, pc, tclient, req, callState, callResult, events,
                   now, watchRes, watchErr, conn, remaining, issued, inFlight,
                   stmtErr, ret>>

\* Line 98: return &connector{cfg}, nil
NewConnectorReturns ==
    /\ pc = "NewConnector"
    /\ optIdx = Len(options)
    /\ built' = Ptr([connector |-> [cfg |-> cfg], err |-> Nil])
    /\ pc' = "Built"
    /\ UNCHANGED <<cfg, options, optIdx, calls, server, ctxDeadline, callHangs,
                   callerCancels, tclient, req, callState, callResult, events,
                   now, watchRes, watchErr, conn, remaining, issued, inFlight,
                   stmtErr, ret>>

BuildNext ==
    \/ ApplyOption
    \/ NewConnectorReturns

BuildSpec == BuildInit /\ [][BuildNext]_vars

(***************************************************************************)
(* Properties.                                                             *)
(***************************************************************************)
Terminated == pc \in {"returned", "panicked"}
Target == <<cfg.Host, cfg.Port, cfg.HTTPPath>>
NumParams == Cardinality(DOMAIN cfg.SessionParams)
\* Position of event e in events (0: it has not happened).
Pos(e) ==
    IF \E i \in 1..Len(events) : events[i] = e
    THEN CHOOSE i \in 1..Len(events) : events[i] = e
    ELSE 0
\* The text SET <key> = <value>; with key and value in backquotes.
QuotedSet(k, v) ==
    <<"S", "E", "T", " ", BACKQUOTE>> \o k \o <<BACKQUOTE>> \o <<" ", "=", " ">>
        \o <<BACKQUOTE>> \o v \o <<BACKQUOTE>> \o <<";">>
GoodResponse(res) == res # Nil /\ Deref(res).kind = "ok"

\* C1: every Connect call ends by returning either (a Connection, no error) or
\* (no Connection, an error), never both, never neither, and never a
\* Connection when client initialization, session open, response validation or
\* a parameter application failed.
C1_ExactlyOneOutcome ==
    /\ pc # "panicked"
    /\ pc = "returned" =>
         /\ \/ ret.conn # Nil /\ ret.err = Nil
            \/ ret.conn = Nil /\ ret.err # Nil
         /\ ret.conn # Nil =>
              /\ tclient # Nil
              /\ watchErr = Nil
              /\ GoodResponse(watchRes)
              /\ stmtErr = Nil

\* C2: independently for catalog and schema, an empty configured string leaves
\* the namespace field of the open-session request absent, and a non-empty one
\* makes the field present holding exactly that string.
C2_NamespaceFields ==
    req # Nil =>
        LET ns == Deref(req).InitialNamespace IN
        /\ cfg.Catalog = <<>> => ns.CatalogName = Nil
        /\ cfg.Catalog # <<>> => ns.CatalogName = <<cfg.Catalog>>
        /\ cfg.Schema = <<>> => ns.SchemaName = Nil
        /\ cfg.Schema # <<>> => ns.SchemaName = <<cfg.Schema>>

C2_Witness ==
    /\ req # Nil
    /\ cfg.Catalog = <<>>
    /\ cfg.Schema # <<>>
    /\ Deref(req).InitialNamespace.CatalogName = Nil
    /\ Deref(req).InitialNamespace.SchemaName # Nil

\* C3: when the remote open-session call never completes and the caller never
\* cancels, Connect eventually returns a timeout error, no Connection and has
\* issued no set statement, once the earlier of the context deadline and the
\* default timeout has elapsed (and at most one poll interval later).
C3_HungCallTimesOut ==
    (pc = "SessionOpening" /\ callHangs /\ ~callerCancels) ~>
        (/\ pc = "returned"
         /\ CauseOf(ret.err) = Ptr(TimeoutErr)
         /\ ret.conn = Nil
         /\ issued = <<>>
         /\ now >= EffectiveDeadline
         /\ now <= EffectiveDeadline + cfg.PollInterval)

C3_Witness ==
    /\ pc = "returned"
    /\ callHangs
    /\ ~callerCancels
    /\ callState = "inFlight"
    /\ CauseOf(ret.err) = Ptr(TimeoutErr)
    /\ ctxDeadline # 0
    /\ ctxDeadline < cfg.DefaultTimeout
    /\ now >= ctxDeadline
    /\ NumParams > 0

\* The cancellation fired, and the open-session call had not completed by then.
CancelledBeforeCompletion ==
    /\ req # Nil
    /\ Pos("cancel") > 0
    /\ Pos("complete") = 0 \/ Pos("cancel") < Pos("complete")

\* C4 (as stated): when the cancellation fires before the open-session call
\* completes, Connect fails with a cancellation error and returns no
\* Connection, whatever the timeout.
C4_CancelAlwaysWins ==
    (pc = "returned" /\ CancelledBeforeCompletion) =>
        /\ CauseOf(ret.err) = Ptr(CancelledErr)
        /\ ret.conn = Nil

\* C4 (amended): when the cancellation fires before the open-session call
\* completes and before the effective deadline has elapsed, Connect fails with
\* a cancellation error and returns no Connection.
C4_CancelBeforeDeadlineWins ==
    (/\ pc = "returned"
     /\ CancelledBeforeCompletion
     /\ Pos("timeout") = 0 \/ Pos("cancel") < Pos("timeout")) =>
        /\ CauseOf(ret.err) = Ptr(CancelledErr)
        /\ ret.conn = Nil

C4_Witness ==
    /\ pc = "returned"
    /\ CancelledBeforeCompletion
    /\ Pos("complete") > 0
    /\ Pos("timeout") = 0
    /\ now < EffectiveDeadline
    /\ CauseOf(ret.err) = Ptr(CancelledErr)

\* C5: a Connection is returned only if the open-session call of this
\* invocation completed successfully before the timeout and the cancellation;
\* once Connect has failed with timeout or cancellation, a call completing
\* later yields no Connection and no set statement.
C5_OnlyCompletedCall ==
    /\ ret.conn # Nil =>
         /\ Pos("complete") = 1
         /\ GoodResponse(callResult)
         /\ Deref(ret.conn).session = Deref(callResult)
    /\ (pc = "returned" /\ CauseOf(ret.err) \in {Ptr(TimeoutErr), Ptr(CancelledErr)}) =>
         /\ ret.conn = Nil
         /\ conn = Nil
         /\ issued = <<>>
         /\ inFlight = Nil

C5_Witness ==
    /\ pc = "returned"
    /\ CauseOf(ret.err) = Ptr(TimeoutErr)
    /\ callState = "completed"
    /\ GoodResponse(callResult)
    /\ Pos("complete") = 0
    /\ NumParams > 0

\* C6: a successful Connect with N session parameters has issued exactly N set
\* statements, one per entry, none skipped or repeated, each the text
\* SET <key> = <value>; with key and value in backquotes; none when N = 0.
C6_ExactlyNStatements ==
    (pc = "returned" /\ ret.conn # Nil) =>
        /\ Len(issued) = NumParams
        /\ \A k \in DOMAIN cfg.SessionParams :
             Cardinality({i \in 1..Len(issued) :
                            issued[i] = QuotedSet(k, cfg.SessionParams[k])}) = 1

C6_Witness ==
    /\ pc = "returned"
    /\ ret.conn # Nil
    /\ NumParams = 2
    /\ Len(issued) = 2

\* C7: when the K-th set statement fails, Connect returns exactly that
\* statement's error and no Connection, and issues none of the statements
\* K+1..N.
C7_FirstFailureAborts ==
    stmtErr # Nil =>
        /\ pc = "returned"
        /\ ret.err = stmtErr
        /\ ret.conn = Nil
        /\ inFlight = Nil
        /\ issued[Len(issued)] = Deref(stmtErr).args
        /\ Len(issued) + Cardinality(remaining) = NumParams
        /\ \A k \in remaining : \A i \in 1..Len(issued) :
             issued[i] # QuotedSet(k, cfg.SessionParams[k])

C7_Witness ==
    /\ pc = "returned"
    /\ stmtErr # Nil
    /\ Len(issued) = 1
    /\ Cardinality(remaining) = 1

\* C8: the set statements are issued in a stable order: with the parameters
\* a = 1 and b = 2 the statement for a is always the first one issued.
C8_StableOrder ==
    (DOMAIN cfg.SessionParams = {<<"a">>, <<"b">>} /\ issued # <<>>) =>
        issued[1] = QuotedSet(<<"a">>, <<"1">>)

\* C9: when the executor returns without error a result that is not an
\* open-session response, or one without a session handle, Connect ends by
\* returning the invalid-response error, no Connection, has issued no set
\* statement and does not crash.
C9_InvalidResponseOutcome ==
    (Terminated /\ watchErr = Nil /\ watchRes # Nil /\ ~GoodResponse(watchRes)) =>
        /\ pc = "returned"
        /\ ret.err = Ptr(InvalidResponseError)
        /\ ret.conn = Nil
        /\ issued = <<>>

\* C10 (as stated): every error Connect returns carries the connection target
\* (host, port, path) and preserves the original cause.
C10_AllErrorsCarryTarget ==
    (pc = "returned" /\ ret.err # Nil) =>
        /\ Deref(ret.err).args = Target
        /\ tclient = Nil => CauseOf(ret.err) = Ptr(InitErr)
        /\ watchErr # Nil => CauseOf(ret.err) = watchErr
        /\ stmtErr # Nil => CauseOf(ret.err) = stmtErr

\* C10 (amended): every error Connect returns preserves the original cause
\* where there is one; only the session-open error carries the connection
\* target: the client-initialization error wraps its cause in a fixed message,
\* the invalid-response error is a new error, and a parameter-application
\* error is the statement's error itself.
C10_TargetOnSessionOpenOnly ==
    (pc = "returned" /\ ret.err # Nil) =>
        LET e == Deref(ret.err) IN
        /\ tclient = Nil => e.cause = Ptr(InitErr) /\ e.args = <<>>
        /\ watchErr # Nil => e.cause = watchErr /\ e.args = Target
        /\ stmtErr # Nil => ret.err = stmtErr
        /\ (tclient # Nil /\ watchErr = Nil /\ stmtErr = Nil) =>
             e = InvalidResponseError /\ e.cause = Nil /\ e.args = <<>>

C10_Witness ==
    /\ pc = "returned"
    /\ watchErr = Ptr(RemoteErr)
    /\ Deref(ret.err).args = Target
    /\ Deref(ret.err).cause = Ptr(RemoteErr)

\* Number of calls to the collaborator named c made by this invocation.
Count(c) == Cardinality({i \in 1..Len(calls) : calls[i] = c})
\* Connect has left sentinel.Watch.
WatchLeft ==
    /\ req # Nil
    /\ pc \in {"Watched", "ParameterApplying", "Executing", "returned", "panicked"}

\* C11: when the session-open step fails, the returned error wraps the error
\* the executor produced, so that timeout, cancellation and the remote call's
\* own error stay distinguishable in the returned error.
C11_SessionOpenCauseKept ==
    (pc = "returned" /\ watchErr # Nil) =>
        /\ ret.err # Nil
        /\ Deref(ret.err).cause = watchErr
        /\ Pos("timeout") = 1 => CauseOf(ret.err) = Ptr(TimeoutErr)
        /\ Pos("cancel") = 1 => CauseOf(ret.err) = Ptr(CancelledErr)
        /\ Pos("complete") = 1 => CauseOf(ret.err) = Ptr(RemoteErr)
        /\ Cardinality({TimeoutErr, CancelledErr, RemoteErr}) = 3

C11_Witness ==
    /\ pc = "returned"
    /\ watchErr = Ptr(RemoteErr)
    /\ Pos("complete") = 1
    /\ Pos("timeout") = 2
    /\ CauseOf(ret.err) = Ptr(RemoteErr)

\* C12: one Connect invocation initializes the client at most once and
\* invokes the open-session call at most once, however many poll intervals
\* pass; after a failure it makes no further call: the calls made are exactly
\* those up to the failed step.
C12_NoRetry ==
    /\ Count("InitThriftClient") <= 1
    /\ Count("OpenSession") <= 1
    /\ pc = "SessionOpening" => calls = <<"InitThriftClient", "OpenSession">>
    /\ (pc = "returned" /\ ret.err # Nil) =>
         /\ tclient = Nil => calls = <<"InitThriftClient">>
         /\ (tclient # Nil /\ stmtErr = Nil) =>
              calls = <<"InitThriftClient", "OpenSession">>
         /\ stmtErr # Nil =>
              /\ SubSeq(calls, 1, 2) = <<"InitThriftClient", "OpenSession">>
              /\ Len(calls) = 2 + Len(issued)
              /\ Count("ExecContext") = Len(issued)
              /\ issued[Len(issued)] = Deref(stmtErr).args
    /\ pc = "panicked" => calls = <<"InitThriftClient", "OpenSession">>

C12_Witness ==
    /\ pc = "returned"
    /\ CauseOf(ret.err) = Ptr(TimeoutErr)
    /\ now >= 2 * cfg.PollInterval
    /\ Count("OpenSession") = 1
    /\ NumParams > 0

\* C13: on success the Connection's id is the rendering of the GUID of the
\* session handle in this invocation's open-session response, and the
\* Connection holds that response, the connector's Config and this
\* invocation's client; without session parameters no set statement is issued.
C13_ConnectionContents ==
    (pc = "returned" /\ ret.conn # Nil) =>
        LET c == Deref(ret.conn) IN
        /\ GoodResponse(callResult)
        /\ c.id = SprintGuid(Deref(callResult).guid)
        /\ Len(c.id) = 36
        /\ c.session = Deref(callResult)
        /\ c.cfg = cfg
        /\ tclient # Nil
        /\ c.client = tclient
        /\ NumParams = 0 => issued = <<>>

C13_Witness ==
    /\ pc = "returned"
    /\ ret.conn # Nil
    /\ cfg.Catalog = <<"c", "1">>
    /\ cfg.Schema = <<"s", "1">>
    /\ NumParams = 0
    /\ issued = <<>>
    /\ Deref(ret.conn).id = SprintGuid(Deref(watchRes).guid)

\* Connect, once it has returned, has failed with an error whose cause is e.
FailsWith(e) ==
    pc \in {"Watched", "returned"}
    /\ (pc = "returned" => (ret.conn = Nil /\ CauseOf(ret.err) = Ptr(e)))

\* C14: the order of completion, cancellation and timeout determines what
\* Connect does: the first of them decides, and when the call completed first
\* its outcome is the one used, whatever happened afterwards.
C14_FirstEventDecides ==
    WatchLeft =>
        /\ Pos("timeout") = 1 =>
             /\ watchErr = Ptr(TimeoutErr)
             /\ FailsWith(TimeoutErr)
        /\ Pos("cancel") = 1 =>
             /\ watchErr = Ptr(CancelledErr)
             /\ FailsWith(CancelledErr)
        /\ (Pos("complete") = 1 /\ Deref(callResult).kind = "err") =>
             /\ watchErr = Ptr(RemoteErr)
             /\ FailsWith(RemoteErr)
        /\ (Pos("complete") = 1 /\ Deref(callResult).kind # "err") =>
             /\ watchErr = Nil
             /\ watchRes = callResult
             /\ pc = "returned" =>
                  CauseOf(ret.err) \notin {Ptr(TimeoutErr), Ptr(CancelledErr), Ptr(RemoteErr)}

C14_Witness ==
    /\ pc = "returned"
    /\ Pos("complete") = 1
    /\ Pos("timeout") = 2
    /\ Pos("cancel") = 3
    /\ ret.conn # Nil

\* C15: the steps of establishment happen in a fixed order and a failed step
\* blocks the later ones: the open-session call follows a successful client
\* initialization, the conn and the set statements follow a successful and
\* validated open-session call, and the Connection is returned only after the
\* last set statement succeeded.
C15_StepOrder ==
    /\ \A i \in 1..Len(calls) :
         calls[i] = (IF i = 1 THEN "InitThriftClient"
                     ELSE IF i = 2 THEN "OpenSession" ELSE "ExecContext")
    /\ req # Nil => tclient # Nil
    /\ (conn # Nil \/ issued # <<>>) =>
         /\ req # Nil
         /\ watchErr = Nil
         /\ GoodResponse(watchRes)
         /\ Count("OpenSession") = 1
    /\ issued # <<>> => conn # Nil
    /\ ret.conn # Nil =>
         /\ ret.conn = conn
         /\ remaining = {}
         /\ inFlight = Nil
         /\ stmtErr = Nil
         /\ \A k \in DOMAIN cfg.SessionParams :
              QuotedSet(k, cfg.SessionParams[k]) \in server.params

C15_Witness ==
    /\ pc = "returned"
    /\ ret.conn # Nil
    /\ NumParams = 2
    /\ Cardinality(server.params) = 2
    /\ Len(calls) = 4

\* C16: when a parameter application fails, Connect closes nothing and rolls
\* nothing back: no close-session call and no statement other than the set
\* statements of the configured parameters is issued, the session opened by
\* this invocation stays open with the parameters applied before the failure
\* in effect, and the caller receives no Connection.
C16_NoRollback ==
    stmtErr # Nil =>
        /\ Count("CloseSession") = 0
        /\ Len(calls) = 2 + Len(issued)
        /\ \A i \in 1..Len(issued) :
             \E k \in DOMAIN cfg.SessionParams :
                issued[i] = QuotedSet(k, cfg.SessionParams[k])
        /\ server.session = "open"
        /\ server.params = {issued[i] : i \in 1..(Len(issued) - 1)}
        /\ ret.conn = Nil

C16_Witness ==
    /\ pc = "returned"
    /\ stmtErr # Nil
    /\ Len(issued) = 2
    /\ server.session = "open"
    /\ server.params = {issued[1]}

\* C17: at most one set statement is in flight at any time, and a statement
\* is issued only after every statement issued before it returned
\* successfully.
C17_OneInFlight ==
    /\ Len(inFlight) <= 1
    /\ pc = "Executing" <=> inFlight # Nil
    /\ inFlight # Nil => Deref(inFlight) = issued[Len(issued)]
    /\ \A i \in 1..(Len(issued) - 1) : issued[i] \in server.params

C17_Witness ==
    /\ pc = "Executing"
    /\ Len(issued) = 2
    /\ inFlight = Ptr(issued[2])
    /\ issued[1] \in server.params
    /\ issued[2] \notin server.params

\* C18: the open-session request carries an empty configuration map, the
\* Config's protocol version and its multi-catalog flag, whatever session
\* parameters are configured; the parameters travel only as set statements.
C18_RequestContents ==
    req # Nil =>
        /\ DOMAIN Deref(req).Configuration = {}
        /\ Deref(req).ClientProtocol = cfg.ThriftProtocolVersion
        /\ Deref(req).CanUseMultipleCatalogs = cfg.CanUseMultipleCatalogs

C18_Witness ==
    /\ req # Nil
    /\ NumParams = 2
    /\ DOMAIN Deref(req).Configuration = {}
    /\ ~cfg.CanUseMultipleCatalogs
    /\ ~Deref(req).CanUseMultipleCatalogs
    /\ Len(issued) = 2

\* C19: no step of Connect, successful or failed, and no further Connect call
\* changes the connector's Config.
C19_ConfigUnchanged == [][cfg' = cfg]_vars

C19_Witness ==
    /\ pc = "returned"
    /\ stmtErr # Nil
    /\ NumParams = 2
    /\ Len(issued) = 2
    /\ ENABLED Reconnect

\* Index of the last option applied so far whose name is n (0: none).
LastNamed(n) ==
    LET I == {i \in 1..optIdx : options[i].name = n}
    IN IF I = {} THEN 0 ELSE CHOOSE i \in I : \A j \in I : j <= i
\* Index of the last WithMaxRows applied so far with a non-zero argument.
LastMaxRows ==
    LET I == {i \in 1..optIdx : options[i].name = "WithMaxRows" /\ options[i].num # 0}
    IN IF I = {} THEN 0 ELSE CHOOSE i \in I : \A j \in I : j <= i
\* The last option applied so far whose name is n; without one, an option
\* holding the defaults.
Last(n) ==
    IF LastNamed(n) # 0 THEN options[LastNamed(n)]
    ELSE [name |-> n,
          str |-> (CASE n = "WithServerHostname" -> DefaultConfig.Host
                     [] n = "WithAccessToken" -> DefaultConfig.AccessToken
                     [] n = "WithHTTPPath" -> DefaultConfig.HTTPPath
                     [] n = "WithUserAgentEntry" -> DefaultConfig.UserAgentEntry
                     [] OTHER -> ""),
          num |-> (CASE n = "WithPort" -> DefaultConfig.Port
                     [] n = "WithTimeout" -> DefaultConfig.QueryTimeoutSeconds
                     [] OTHER -> 0),
          catalog |-> DefaultConfig.Catalog,
          schema |-> DefaultConfig.Schema,
          params |-> DefaultConfig.SessionParams]

\* C20: NewConnector applies its options in argument order to the default
\* Config and returns no error: each field holds the argument of the last
\* option for it (the default without one), WithInitialNamespace sets catalog
\* and schema both, empty or not, WithMaxRows(0) changes nothing, and no
\* option touches a field of another.
C20_OptionsInOrder ==
    /\ optIdx <= Len(options)
    /\ cfg.Host = Last("WithServerHostname").str
    /\ cfg.Port = Last("WithPort").num
    /\ cfg.AccessToken = Last("WithAccessToken").str
    /\ cfg.HTTPPath = Last("WithHTTPPath").str
    /\ cfg.MaxRows =
         IF LastMaxRows = 0 THEN DefaultConfig.MaxRows ELSE options[LastMaxRows].num
    /\ cfg.QueryTimeoutSeconds = Last("WithTimeout").num
    /\ cfg.Catalog = Last("WithInitialNamespace").catalog
    /\ cfg.Schema = Last("WithInitialNamespace").schema
    /\ cfg.UserAgentEntry = Last("WithUserAgentEntry").str
    /\ cfg.SessionParams = Last("WithSessionParams").params
    /\ cfg.PollInterval = DefaultConfig.PollInterval
    /\ cfg.DefaultTimeout = DefaultConfig.DefaultTimeout
    /\ cfg.ThriftProtocolVersion = DefaultConfig.ThriftProtocolVersion
    /\ cfg.CanUseMultipleCatalogs = DefaultConfig.CanUseMultipleCatalogs
    /\ DOMAIN cfg = DOMAIN DefaultConfig
    /\ built # Nil =>
         /\ optIdx = Len(options)
         /\ Deref(built).err = Nil
         /\ Deref(built).connector.cfg = cfg

C20_Witness ==
    /\ built # Nil
    /\ options = <<NumOption("WithMaxRows", 5), NumOption("WithMaxRows", 0)>>
    /\ cfg.MaxRows = 5

====
